---- MODULE Spec2Model ----
(***************************************************************************)
(* A model of the rate-limited HTTP clients of python-oop-api-final:       *)
(*   - BasicWebApi (src/web_api.py): the sliding-window request history,   *)
(*     the rate-limit gate, the request primitive and its error raising;   *)
(*   - YandexDiskApi (src/yandex_disk_api.py): the storage client and its  *)
(*     four operations against a remote backend.                           *)
(*   - DogCeoApi (src/dog_ceo_api.py): the catalog client and its _get;   *)
(*   - Application.process_image (src/main.py): the skip / overwrite       *)
(*     decision for one image over the storage client.                     *)
(*   - Application.main and delete_root_directory (src/main.py): the      *)
(*     order of the storage requests, the thread of the root deletion,     *)
(*     the report file and the progress position of BreedTqdm.             *)
(* Time is counted in ticks of the wall clock (time.time()); periods,      *)
(* the history retention and the sleep interval are whole ticks.           *)
(***************************************************************************)
EXTENDS Integers, Sequences, FiniteSets, TLC

VARIABLES
    now,                     \* time.time(): the wall clock, non-decreasing
    \* ---- BasicWebApi instance (src/web_api.py) ----
    api_limits,              \* self._api_limits: sequence of WebApiLimit
    request_history_expire,  \* self._request_history_expire
    rate_limit_sleep,        \* self._rate_limit_sleep
    request_history,         \* self._request_history: sequence of timestamps
    pc,                      \* position of the caller inside _request
    limit_idx,               \* the limit the for loop of _wait_for_api_limits is at
    suppress,                \* the suppress argument of the running _request
    status_code,             \* response.status_code of the last response (0: none)
    outcome,                 \* how the last _request ended
    rate_query,              \* the caller's get_rate_per_period call of this instant and its result
    dispatched,              \* history variable: every dispatch timestamp, never pruned
    transports,              \* history variable: number of session.request calls made
    \* ---- YandexDiskApi instance (src/yandex_disk_api.py) ----
    limit_per_second,        \* self._limit_per_second
    yd_request_history,      \* self._request_history of the YandexDiskApi instance
    yd_pc,                   \* position of the caller inside the running operation
    yd_op,                   \* the running (or last) operation and its arguments
    yd_status,               \* response.status_code of the last response (0: none)
    yd_outcome,              \* how the last operation ended
    yd_result,               \* the value check_item_exists returned
    yd_attempts,             \* history variable: HTTP requests made by the operation
    yd_recorded,             \* history variable: history records added by the operation
    yd_dispatched,           \* history variable: every dispatch timestamp, never pruned
    \* ---- the remote storage behind the API ----
    items,                   \* the paths that exist in the storage
    lock,                    \* how many coming requests find the resource locked
    operation,               \* the asynchronous operation of the storage
    \* ---- BasicWebApi._construct_headers (src/web_api.py) ----
    oauth_key,               \* self._oauth_key
    headers,                 \* the headers argument of _construct_headers
    sent_headers,            \* the dictionary _construct_headers returned
    \* ---- Application.process_image (src/main.py) ----
    overwrite,               \* self.overwrite
    report,                  \* self.report: the file names appended so far
    app_pc,                  \* position of control inside process_image
    file_path,               \* file_path of the running (or last) process_image
    app_outcome,             \* how the last process_image ended
    existed,                 \* history variable: file_path was in the storage at the call
    report0,                 \* history variable: self.report at the call
    app_calls,               \* history variable: the operations process_image called
    \* ---- Application.main and delete_root_directory (src/main.py) ----
    clean,                   \* self.clean
    main_pc,                 \* position of the main thread inside main
    main_outcome,            \* how main ended
    thread_pc,               \* the thread of delete_root_directory
    yd_actor,                \* the thread that called the running storage operation
    catalog,                 \* the breeds still to process: the number of sub-breeds of each
    breed_no,                \* the number of the breed being processed
    sub_left,                \* sub-breeds of the breed still to process
    images_left,             \* images of the list still to process
    saved,                   \* the report file: what self.report.save wrote
    created,                 \* history variable: directories whose create_directory returned
    \* ---- BreedTqdm instance breed_progress (src/main.py) ----
    image,                   \* self.image
    total_images,            \* self.total_images
    sub_breed,               \* self.sub_breed
    total_sub_breeds         \* self.total_sub_breeds

webVars == <<api_limits, request_history_expire, rate_limit_sleep, request_history,
             pc, limit_idx, suppress, status_code, outcome, rate_query,
             dispatched, transports>>

ydVars == <<limit_per_second, yd_request_history, yd_pc, yd_op, yd_status,
            yd_outcome, yd_result, yd_attempts, yd_recorded, yd_dispatched,
            items, lock, operation>>

hdrVars == <<oauth_key, headers, sent_headers>>

appVars == <<overwrite, report, app_pc, file_path, app_outcome, existed,
             report0, app_calls>>

barVars == <<image, total_images, sub_breed, total_sub_breeds>>

mainVars == <<clean, main_pc, main_outcome, thread_pc, yd_actor, catalog,
              breed_no, sub_left, images_left, saved, created, barVars>>

vars == <<now, webVars, ydVars, hdrVars, appVars, mainVars>>

----------------------------------------------------------------------------
(* Bounds of the model *)

\* the clock stops advancing at MaxTime
MaxTime == 3
\* at most MaxRequests calls of _request are made
MaxRequests == 3
\* limit periods and queried periods range over 1..MaxPeriod ticks
MaxPeriod == 3
\* rate limits range over 1..MaxRate
MaxRate == 2
\* the history retention ranges over 1..MaxExpire ticks
MaxExpire == 2

\* the suppress argument None, and a set of status codes
None == [given |-> FALSE, codes |-> {}]
Codes(set) == [given |-> TRUE, codes |-> set]

\* no get_rate_per_period call of the caller is on record
NoQuery == [period |-> 0, result |-> 0]

Periods == 1..MaxPeriod

\* WebApiLimit(period, rate_limit)
WebApiLimit == [period : Periods, rate_limit : 1..MaxRate]

\* the configured limit lists: none, one limit, or two limits of different
\* periods in either order
LimitLists ==
    {<<>>} \cup {<<l>> : l \in WebApiLimit}
           \cup {ls \in {<<l1, l2>> : l1 \in WebApiLimit, l2 \in WebApiLimit} :
                    ls[1].period # ls[2].period}

\* no YandexDiskApi operation was called yet
NoOperation == [name |-> "none", path |-> "", flag |-> FALSE, lock0 |-> 0]

\* the storage runs no asynchronous operation
NoAsync == [status |-> "none", path |-> ""]

\* HTTP statuses the server may answer with
StatusCodes == {200, 404, 500}

\* the suppress arguments callers pass: None or a set of status codes
SuppressArgs == {None, Codes({404})}

----------------------------------------------------------------------------
(* Pure helpers of BasicWebApi *)

\* a get_history_for_period that never lets a record leave the window
get_history_for_period_all(history, period_secs, t_now) == history

\* filter(filter_predicate, history): the records within the last period_secs
\* seconds of t_now, in their order
RECURSIVE get_history_for_period(_, _, _)
get_history_for_period(history, period_secs, t_now) ==
    IF history = <<>> THEN <<>>
    ELSE LET rest == get_history_for_period(Tail(history), period_secs, t_now)
         IN  IF Head(history) + period_secs >= t_now
             THEN <<Head(history)>> \o rest
             ELSE rest

\* a _clear_expired_requests that deletes nothing
clear_expired_requests_kept(history, expire, t_now) == history

\* self._request_history after _clear_expired_requests()
clear_expired_requests(history, expire, t_now) ==
    get_history_for_period(history, expire, t_now)

\* sum(1 for _ in self._get_history_for_period(period_secs))
count_history(history, period_secs, t_now) ==
    Len(get_history_for_period(history, period_secs, t_now))

\* a _register_request that records nothing
register_request_dropped(history, t_now) == history

\* a _register_request that inserts the record at the front
register_request_prepended(history, t_now) == <<t_now>> \o history

\* self._request_history after _register_request()
register_request(history, t_now) == Append(history, t_now)

\* requests.Response.raise_for_status(): raises for 4xx and 5xx
raise_for_status(status) == status >= 400 /\ status < 600

\* a _raise_error that ignores the suppress argument
raise_error_unsuppressed(status, suppress_arg) == raise_for_status(status)

\* BasicWebApi._raise_error: TRUE when it raises HTTPError
raise_error(status, suppress_arg) ==
    /\ (suppress_arg = None \/ status \notin suppress_arg.codes)
    /\ raise_for_status(status)

----------------------------------------------------------------------------
(* HTTP headers: a dictionary is a function from header names to values *)

\* oauth_key=None of BasicWebApi.__init__, and a key given
NoKey == [given |-> FALSE, key |-> ""]
Key(k) == [given |-> TRUE, key |-> k]

\* the keys a client is constructed with: none, the empty string, a token
OauthKeys == {NoKey, Key(""), Key("y0_token")}

\* the dictionary {}
EmptyDict == [k \in {} |-> ""]

\* the header names and values a caller passes
HeaderKeys == {"Accept", "Connection", "Keep-Alive", "Authorization", "X-Request-Id"}
HeaderValues == {"*/*", "close"}
HeaderDicts == UNION {[D -> HeaderValues] : D \in SUBSET HeaderKeys}

\* headers=None, and a dictionary given
NoHeaders == [given |-> FALSE, dict |-> EmptyDict]
Headers(d) == [given |-> TRUE, dict |-> d]
HeaderArgs == {NoHeaders} \cup {Headers(d) : d \in HeaderDicts}

\* no headers were constructed yet
NotSent == [sent |-> FALSE, dict |-> EmptyDict]

\* BasicWebApi._get_common_headers
get_common_headers(key) ==
    LET common == [k \in {"Accept", "Connection", "Keep-Alive"} |->
                      CASE k = "Accept" -> "application/json"
                        [] k = "Connection" -> "keep-alive"
                        [] k = "Keep-Alive" -> "timeout=60"]
    IN  IF key # NoKey
        THEN [k \in DOMAIN common \cup {"Authorization"} |->
                 IF k = "Authorization" THEN "OAuth " \o key.key
                                        ELSE common[k]]
        ELSE common

\* a _construct_headers where the common headers overwrite the caller's
construct_headers_defaults_win(key, arg) ==
    LET result == get_common_headers(key)
    IN  [k \in DOMAIN result \cup DOMAIN arg.dict |->
            IF k \in DOMAIN result THEN result[k] ELSE arg.dict[k]]

\* BasicWebApi._construct_headers: result.update(headers)
construct_headers(key, arg) ==
    LET result == get_common_headers(key)
    IN  IF arg # NoHeaders
        THEN [k \in DOMAIN result \cup DOMAIN arg.dict |->
                 IF k \in DOMAIN arg.dict THEN arg.dict[k] ELSE result[k]]
        ELSE result

----------------------------------------------------------------------------
(* Initial state: a freshly constructed client, with any configuration *)

\* no BasicWebApi call is made in this specification
WebUnused ==
    /\ api_limits = <<>>
    /\ request_history_expire = 1
    /\ rate_limit_sleep = 1
    /\ request_history = <<>>
    /\ pc = "idle"
    /\ limit_idx = 0
    /\ suppress = None
    /\ status_code = 0
    /\ outcome = "none"
    /\ rate_query = NoQuery
    /\ dispatched = <<>>
    /\ transports = 0

\* Application.main is not called in this specification
MainUnused ==
    /\ clean = FALSE
    /\ main_pc = "none"
    /\ main_outcome = "none"
    /\ thread_pc = "none"
    /\ yd_actor = "main"
    /\ catalog = <<>>
    /\ breed_no = 0
    /\ sub_left = 0
    /\ images_left = 0
    /\ saved = [written |-> FALSE, content |-> <<>>]
    /\ created = {}
    /\ image = 0
    /\ total_images = 0
    /\ sub_breed = 0
    /\ total_sub_breeds = 0

\* no headers are constructed in this specification
HdrUnused ==
    /\ oauth_key = NoKey
    /\ headers = NoHeaders
    /\ sent_headers = NotSent

\* Application.process_image is not called in this specification
AppUnused ==
    /\ overwrite = FALSE
    /\ report = <<>>
    /\ app_pc = "idle"
    /\ file_path = ""
    /\ app_outcome = "none"
    /\ existed = FALSE
    /\ report0 = <<>>
    /\ app_calls = <<>>

\* BasicWebApi.__init__ with any limits and any history retention
WebInit ==
    /\ api_limits \in LimitLists
    /\ request_history_expire \in 1..MaxExpire
    /\ rate_limit_sleep = 1
    /\ request_history = <<>>
    /\ pc = "idle"
    /\ limit_idx = 0
    /\ suppress = None
    /\ status_code = 0
    /\ outcome = "none"
    /\ rate_query = NoQuery
    /\ dispatched = <<>>
    /\ transports = 0

\* no YandexDiskApi call is made in this specification
YdUnused ==
    /\ limit_per_second = 1
    /\ yd_request_history = <<>>
    /\ yd_pc = "idle"
    /\ yd_op = NoOperation
    /\ yd_status = 0
    /\ yd_outcome = "none"
    /\ yd_result = FALSE
    /\ yd_attempts = 0
    /\ yd_recorded = 0
    /\ yd_dispatched = <<>>
    /\ items = {}
    /\ lock = 0
    /\ operation = NoAsync

Init ==
    /\ now = 0
    /\ WebInit
    /\ YdUnused
    /\ HdrUnused
    /\ AppUnused
    /\ MainUnused

----------------------------------------------------------------------------
(* Actions *)

\* the wall clock advances while the program runs or idles; an answer of
\* get_rate_per_period on record is about the instant it was given at
Tick ==
    /\ now < MaxTime
    /\ now' = now + 1
    /\ rate_query' = NoQuery
    /\ UNCHANGED <<api_limits, request_history_expire, rate_limit_sleep,
                   request_history, pc, limit_idx, suppress, status_code,
                   outcome, dispatched, transports>>
    /\ UNCHANGED <<ydVars, hdrVars, appVars, mainVars>>

\* the caller calls _request(method, endpoint, suppress=s): control enters
\* _wait_for_api_limits with the first limit (or leaves it at once with none)
Request(s) ==
    /\ pc = "idle"
    /\ Len(dispatched) < MaxRequests
    /\ suppress' = s
    /\ status_code' = 0
    /\ outcome' = "none"
    /\ rate_query' = NoQuery
    /\ IF api_limits = <<>>
       THEN pc' = "register" /\ limit_idx' = 0
       ELSE pc' = "wait" /\ limit_idx' = 1
    /\ UNCHANGED <<now, api_limits, request_history_expire, rate_limit_sleep,
                   request_history, dispatched, transports>>
    /\ UNCHANGED <<ydVars, hdrVars, appVars, mainVars>>

\* one evaluation of the while condition of _wait_for_api_limits for the
\* current limit: get_rate_per_period prunes the history and counts
WaitCheck ==
    /\ pc = "wait"
    /\ LET limit == api_limits[limit_idx]
           pruned == clear_expired_requests(request_history,
                                            request_history_expire, now)
           rate == count_history(pruned, limit.period, now)
       IN  /\ request_history' = pruned
           /\ IF rate >= limit.rate_limit
              THEN pc' = "sleep" /\ limit_idx' = limit_idx
              ELSE IF limit_idx < Len(api_limits)
                   THEN pc' = "wait" /\ limit_idx' = limit_idx + 1
                   ELSE pc' = "register" /\ limit_idx' = 0
    /\ UNCHANGED <<now, api_limits, request_history_expire, rate_limit_sleep,
                   suppress, status_code, outcome, rate_query, dispatched,
                   transports>>
    /\ UNCHANGED <<ydVars, hdrVars, appVars, mainVars>>

\* time.sleep(self._rate_limit_sleep) in the while body, for a clock that
\* runs up to horizon
SleepUntil(horizon) ==
    /\ pc = "sleep"
    /\ now + rate_limit_sleep <= horizon
    /\ now' = now + rate_limit_sleep
    /\ pc' = "wait"
    /\ UNCHANGED <<api_limits, request_history_expire, rate_limit_sleep,
                   request_history, limit_idx, suppress, status_code, outcome,
                   rate_query, dispatched, transports>>
    /\ UNCHANGED <<ydVars, hdrVars, appVars, mainVars>>

\* time.sleep(self._rate_limit_sleep) within the MaxTime ticks of Spec
Sleep == SleepUntil(MaxTime)

\* self._register_request(), then self._session.request(...) is entered
Register ==
    /\ pc = "register"
    /\ request_history' = register_request(request_history, now)
    /\ dispatched' = Append(dispatched, now)
    /\ pc' = "transport"
    /\ UNCHANGED <<now, api_limits, request_history_expire, rate_limit_sleep,
                   limit_idx, suppress, status_code, outcome, rate_query,
                   transports>>
    /\ UNCHANGED <<ydVars, hdrVars, appVars, mainVars>>

\* the transport returns a response with status st; _raise_error decides
\* between raising HTTPError and returning the response
Respond(st) ==
    /\ pc = "transport"
    /\ transports' = transports + 1
    /\ status_code' = st
    /\ outcome' = IF raise_error(st, suppress) THEN "raised" ELSE "returned"
    /\ pc' = "idle"
    /\ UNCHANGED <<now, api_limits, request_history_expire, rate_limit_sleep,
                   request_history, limit_idx, suppress, rate_query, dispatched>>
    /\ UNCHANGED <<ydVars, hdrVars, appVars, mainVars>>

\* a _request that catches the transport exception and sends the request again
TransportError_retried ==
    /\ pc = "transport"
    /\ transports' = transports + 1
    /\ pc' = "register"
    /\ UNCHANGED <<now, api_limits, request_history_expire, rate_limit_sleep,
                   request_history, limit_idx, suppress, status_code, outcome,
                   rate_query, dispatched>>
    /\ UNCHANGED <<ydVars, hdrVars, appVars, mainVars>>

\* the transport raises (connection error, timeout): the exception leaves
\* _request
TransportError ==
    /\ pc = "transport"
    /\ transports' = transports + 1
    /\ outcome' = "transport_error"
    /\ pc' = "idle"
    /\ UNCHANGED <<now, api_limits, request_history_expire, rate_limit_sleep,
                   request_history, limit_idx, suppress, status_code, rate_query,
                   dispatched>>
    /\ UNCHANGED <<ydVars, hdrVars, appVars, mainVars>>

\* the caller calls get_rate_per_period(period)
get_rate_per_period(period) ==
    /\ pc = "idle"
    /\ LET pruned == clear_expired_requests(request_history,
                                            request_history_expire, now)
       IN  /\ request_history' = pruned
           /\ rate_query' = [period |-> period,
                             result |-> count_history(pruned, period, now)]
    /\ UNCHANGED <<now, api_limits, request_history_expire, rate_limit_sleep,
                   pc, limit_idx, suppress, status_code, outcome, dispatched,
                   transports>>
    /\ UNCHANGED <<ydVars, hdrVars, appVars, mainVars>>

Next ==
    \/ Tick
    \/ \E s \in SuppressArgs : Request(s)
    \/ WaitCheck
    \/ Sleep
    \/ Register
    \/ \E st \in StatusCodes : Respond(st)
    \/ TransportError
    \/ \E p \in Periods : get_rate_per_period(p)

Spec == Init /\ [][Next]_vars

----------------------------------------------------------------------------
(* The rate-limit gate under a clock that keeps advancing *)

\* Requests are called during the first MaxTime ticks or while the clock
\* is carried on by sleeping; a caller that sleeps is never stopped by the
\* end of the clock: the records a request waits for were made before it
\* and leave every window within MaxPeriod + 1 ticks.
SleepHorizon == MaxTime + MaxRequests * (MaxPeriod + 1)

NextGate ==
    \/ Tick
    \/ \E s \in SuppressArgs : Request(s)
    \/ WaitCheck
    \/ SleepUntil(SleepHorizon)
    \/ Register
    \/ \E st \in StatusCodes : Respond(st)
    \/ TransportError

\* the thread inside _request keeps running: the while condition is
\* evaluated, time.sleep returns, the request is registered and sent
SpecGate ==
    /\ Init
    /\ [][NextGate]_vars
    /\ WF_vars(WaitCheck)
    /\ WF_vars(SleepUntil(SleepHorizon))
    /\ WF_vars(Register)

----------------------------------------------------------------------------
(* DogCeoApi (src/dog_ceo_api.py).  In SpecDog one tick of the clock is one *)
(* second.                                                                  *)

\* at most DogMaxRequests operations of DogCeoApi are called
DogMaxRequests == 11

\* REQUEST_HISTORY_EXPIRE_DEFAULT = 2.0
REQUEST_HISTORY_EXPIRE_DEFAULT == 2

\* the rate limit the specification gives the catalog client: 10 requests
\* within a period of 1 second (2 seconds in a variant)
DOG_RATE_LIMIT == 10
DOG_LIMIT_PERIOD == 1

\* DogCeoApi.__init__: super().__init__(api_root=api_root) passes no
\* api_limits, so self._api_limits is [] and the defaults apply
DogInit ==
    /\ api_limits = <<>>
    /\ request_history_expire = REQUEST_HISTORY_EXPIRE_DEFAULT
    /\ rate_limit_sleep = 1
    /\ request_history = <<>>
    /\ pc = "idle"
    /\ limit_idx = 0
    /\ suppress = None
    /\ status_code = 0
    /\ outcome = "none"
    /\ rate_query = NoQuery
    /\ dispatched = <<>>
    /\ transports = 0

InitDog ==
    /\ now = 0
    /\ DogInit
    /\ YdUnused
    /\ HdrUnused
    /\ AppUnused
    /\ MainUnused

\* DogCeoApi._get(endpoint): self._request('GET', endpoint), no suppress;
\* control enters _wait_for_api_limits, whose for loop runs over the limits
DogEnter ==
    /\ pc = "idle"
    /\ Len(dispatched) < DogMaxRequests
    /\ suppress' = None
    /\ status_code' = 0
    /\ outcome' = "none"
    /\ rate_query' = NoQuery
    /\ IF api_limits = <<>>
       THEN pc' = "register" /\ limit_idx' = 0
       ELSE pc' = "wait" /\ limit_idx' = 1
    /\ UNCHANGED <<now, api_limits, request_history_expire, rate_limit_sleep,
                   request_history, dispatched, transports>>
    /\ UNCHANGED <<ydVars, hdrVars>>

\* an operation of DogCeoApi is called
DogGet ==
    /\ DogEnter
    /\ UNCHANGED <<appVars, mainVars>>

\* with no limits _wait_for_api_limits never evaluates a while condition
\* and never sleeps
NextDog ==
    \/ Tick
    \/ DogGet
    \/ Register
    \/ \E st \in StatusCodes : Respond(st)
    \/ TransportError

SpecDog == InitDog /\ [][NextDog]_vars

----------------------------------------------------------------------------
(* BasicWebApi._construct_headers on any client and any argument *)

\* BasicWebApi.__init__ with any oauth_key
HdrInit ==
    /\ oauth_key \in OauthKeys
    /\ headers = NoHeaders
    /\ sent_headers = NotSent

InitHeaders ==
    /\ now = 0
    /\ WebUnused
    /\ YdUnused
    /\ HdrInit
    /\ AppUnused
    /\ MainUnused

\* _request prepares the headers of a request: self._construct_headers(headers)
ConstructHeaders(arg) ==
    /\ headers' = arg
    /\ sent_headers' = [sent |-> TRUE, dict |-> construct_headers(oauth_key, arg)]
    /\ UNCHANGED <<now, webVars, ydVars, appVars, mainVars, oauth_key>>

NextHeaders == \E arg \in HeaderArgs : ConstructHeaders(arg)

SpecHeaders == InitHeaders /\ [][NextHeaders]_vars

----------------------------------------------------------------------------
(* YandexDiskApi.  In SpecYD one tick of the clock is 0.1 second. *)

\* the clock of SpecYD stops advancing at YdMaxTime
YdMaxTime == 11
\* at most YdMaxCalls operations are called
YdMaxCalls == 3
\* the storage answers at most MaxLock coming requests with "locked"
MaxLock == 2

\* one second, the period of requests_per_second: _count_history(1)
SECOND == 10
\* HISTORY_EXPIRE_PERIOD = 2.0
HISTORY_EXPIRE_PERIOD == 20
\* REQUEST_RATE_SLEEP_PERIOD = 0.1
REQUEST_RATE_SLEEP_PERIOD == 1

\* the total number of attempts the lock retry of the specification makes
MAX_UNLOCK_ATTEMPTS == 20

\* the resource stays locked for good
Forever == -1

\* the paths operations are called with
Paths == {"disk:/dog_pictures"}

OperationNames ==
    {"create_directory", "delete_item", "upload_file_from_url",
     "check_item_exists"}

\* the HTTP method each operation sends: requests.put / delete / post
\* in the operation's body
Method(name) ==
    CASE name = "create_directory" -> "PUT"
      [] name = "delete_item" -> "DELETE"
      [] name = "upload_file_from_url" -> "POST"
      [] name = "check_item_exists" -> "DELETE"

\* the suppress_code each operation passes to _raise_error
SuppressCode(name) ==
    CASE name = "create_directory" -> 409
      [] name = "delete_item" -> 404
      [] name = "upload_file_from_url" -> 0
      [] name = "check_item_exists" -> 404

\* the suppress_flag each operation passes to _raise_error: its
\* ignore_existing / ignore_non_existent argument, the default, or True
SuppressFlag(name, flag) ==
    CASE name = "create_directory" -> flag
      [] name = "delete_item" -> flag
      [] name = "upload_file_from_url" -> FALSE
      [] name = "check_item_exists" -> TRUE

\* the calls a caller can make: the flag is an argument of create_directory
\* and delete_item only
Calls ==
    {c \in [name : OperationNames, path : Paths, flag : BOOLEAN] :
        c.name \in {"upload_file_from_url", "check_item_exists"} => ~c.flag}

\* a YandexDiskApi._raise_error that suppresses nothing
yd_raise_error_unsuppressed(status, suppress_code, suppress_flag) ==
    raise_for_status(status)

\* a YandexDiskApi._raise_error that suppresses suppress_code whatever the flag
yd_raise_error_flag_ignored(status, suppress_code, suppress_flag) ==
    status # suppress_code /\ raise_for_status(status)

\* YandexDiskApi._raise_error: TRUE when it raises HTTPError
yd_raise_error(status, suppress_code, suppress_flag) ==
    /\ (status # suppress_code \/ ~suppress_flag)
    /\ raise_for_status(status)

\* self._request_history after YandexDiskApi._clear_expired_requests()
yd_clear_expired_requests(history, t_now) ==
    get_history_for_period(history, HISTORY_EXPIRE_PERIOD, t_now)

\* the requests_per_second of YandexDiskApiDummy: always 0
requests_per_second_zero(history, t_now) == 0

\* YandexDiskApi.requests_per_second, on the pruned history
requests_per_second(history, t_now) ==
    Len(get_history_for_period(yd_clear_expired_requests(history, t_now),
                               SECOND, t_now))

\* self._request_history after YandexDiskApi._register_request()
yd_register_request(history, t_now) == Append(history, t_now)

\* The answers the storage can give to a request, each with the state the
\* storage is in afterwards: 423 while the resource is locked; otherwise 409
\* for creating what exists, 404 for deleting what does not exist, a
\* deletion done at once (204) or accepted as an asynchronous operation
\* (202); an upload is accepted (202); any request can fail with 500.
BackendAnswers(method, path) ==
    LET same(st) == [status |-> st, items |-> items, lock |-> lock,
                     operation |-> operation]
    IN  IF lock # 0
        THEN {[same(423) EXCEPT !.lock = IF lock = Forever THEN Forever
                                                          ELSE lock - 1]}
        ELSE {same(500)} \cup
             CASE method = "PUT" ->
                    IF path \in items
                    THEN {same(409)}
                    ELSE {[same(201) EXCEPT !.items = items \cup {path}]}
               [] method = "DELETE" ->
                    IF path \notin items
                    THEN {same(404)}
                    ELSE {[same(204) EXCEPT !.items = items \ {path}],
                          [same(202) EXCEPT !.operation =
                               [status |-> "running", path |-> path]]}
               [] method = "POST" ->
                    {[same(202) EXCEPT !.items = items \cup {path}]}

\* YandexDiskApi.__init__ with any limit_per_second, and a storage in any state
YdInit ==
    /\ limit_per_second \in 1..MaxRate
    /\ yd_request_history = <<>>
    /\ yd_pc = "idle"
    /\ yd_op = NoOperation
    /\ yd_status = 0
    /\ yd_outcome = "none"
    /\ yd_result = FALSE
    /\ yd_attempts = 0
    /\ yd_recorded = 0
    /\ yd_dispatched = <<>>
    /\ items \in SUBSET Paths
    /\ lock \in (0..MaxLock) \cup {Forever}
    /\ operation = NoAsync

InitYD ==
    /\ now = 0
    /\ WebUnused
    /\ YdInit
    /\ HdrUnused
    /\ AppUnused
    /\ MainUnused

\* the wall clock advances
YdTick ==
    /\ now < YdMaxTime
    /\ now' = now + 1
    /\ UNCHANGED <<webVars, ydVars, hdrVars, appVars, mainVars>>

\* control enters an operation of YandexDiskApi and its _wait_for_api_limits
YdEnter(c) ==
    /\ yd_pc = "idle"
    /\ yd_op' = [name |-> c.name, path |-> c.path, flag |-> c.flag,
                 lock0 |-> lock]
    /\ yd_pc' = "wait"
    /\ yd_status' = 0
    /\ yd_outcome' = "none"
    /\ yd_result' = FALSE
    /\ yd_attempts' = 0
    /\ yd_recorded' = 0
    /\ UNCHANGED <<now, webVars, hdrVars>>
    /\ UNCHANGED <<limit_per_second, yd_request_history,
                   yd_dispatched, items, lock, operation>>

\* the caller calls create_directory, delete_item, upload_file_from_url or
\* check_item_exists
YdCall(c) ==
    /\ Len(yd_dispatched) < YdMaxCalls
    /\ YdEnter(c)
    /\ UNCHANGED <<appVars, mainVars>>

\* one evaluation of the while condition of _wait_for_api_limits: the
\* requests_per_second property prunes the history and counts the last second
YdWaitCheck ==
    /\ yd_pc = "wait"
    /\ yd_request_history' = yd_clear_expired_requests(yd_request_history, now)
    /\ yd_pc' = IF requests_per_second(yd_request_history, now) >= limit_per_second
                THEN "sleep"
                ELSE "register"
    /\ UNCHANGED <<now, webVars, hdrVars, appVars, mainVars>>
    /\ UNCHANGED <<limit_per_second, yd_op, yd_status, yd_outcome,
                   yd_result, yd_attempts, yd_recorded, yd_dispatched, items,
                   lock, operation>>

\* time.sleep(sleep_period) in the while body
YdSleep ==
    /\ yd_pc = "sleep"
    /\ now + REQUEST_RATE_SLEEP_PERIOD <= YdMaxTime
    /\ now' = now + REQUEST_RATE_SLEEP_PERIOD
    /\ yd_pc' = "wait"
    /\ UNCHANGED <<webVars, hdrVars, appVars, mainVars>>
    /\ UNCHANGED <<limit_per_second, yd_request_history, yd_op,
                   yd_status, yd_outcome, yd_result, yd_attempts, yd_recorded,
                   yd_dispatched, items, lock, operation>>

\* self._register_request(), then the HTTP request is sent
YdRegister ==
    /\ yd_pc = "register"
    /\ yd_request_history' = yd_register_request(yd_request_history, now)
    /\ yd_recorded' = yd_recorded + Len(yd_request_history')
                                  - Len(yd_request_history)
    /\ yd_dispatched' = Append(yd_dispatched, now)
    /\ yd_pc' = "transport"
    /\ UNCHANGED <<now, webVars, hdrVars, appVars, mainVars>>
    /\ UNCHANGED <<limit_per_second, yd_op, yd_status, yd_outcome,
                   yd_result, yd_attempts, items, lock, operation>>

\* the storage answers the request; _raise_error raises HTTPError or the
\* operation returns (check_item_exists: whether the status is not 404)
YdRespond ==
    /\ yd_pc = "transport"
    /\ \E a \in BackendAnswers(Method(yd_op.name), yd_op.path) :
        /\ yd_status' = a.status
        /\ items' = a.items
        /\ lock' = a.lock
        /\ operation' = a.operation
        /\ IF yd_raise_error(a.status, SuppressCode(yd_op.name),
                             SuppressFlag(yd_op.name, yd_op.flag))
           THEN yd_outcome' = "raised" /\ yd_result' = FALSE
           ELSE /\ yd_outcome' = "returned"
                /\ yd_result' = (yd_op.name = "check_item_exists"
                                   /\ a.status # 404)
    /\ yd_attempts' = yd_attempts + 1
    /\ yd_pc' = "idle"
    /\ UNCHANGED <<now, webVars, hdrVars, appVars, mainVars>>
    /\ UNCHANGED <<limit_per_second, yd_request_history, yd_op,
                   yd_recorded, yd_dispatched>>

\* the storage completes the deletion it accepted with 202
BackendOperationDone ==
    /\ operation.status = "running"
    /\ operation' = [operation EXCEPT !.status = "success"]
    /\ items' = items \ {operation.path}
    /\ UNCHANGED <<now, webVars, hdrVars, appVars, mainVars>>
    /\ UNCHANGED <<limit_per_second, yd_request_history, yd_pc,
                   yd_op, yd_status, yd_outcome, yd_result, yd_attempts,
                   yd_recorded, yd_dispatched, lock>>

NextYD ==
    \/ YdTick
    \/ \E c \in Calls : YdCall(c)
    \/ YdWaitCheck
    \/ YdSleep
    \/ YdRegister
    \/ YdRespond
    \/ BackendOperationDone

SpecYD == InitYD /\ [][NextYD]_vars

----------------------------------------------------------------------------
(* Application.process_image (src/main.py) over a YandexDiskApi client *)

\* the Application with either setting of OVERWRITE and an empty report
AppInit ==
    /\ overwrite \in BOOLEAN
    /\ report = <<>>
    /\ app_pc = "idle"
    /\ file_path = ""
    /\ app_outcome = "none"
    /\ existed = FALSE
    /\ report0 = <<>>
    /\ app_calls = <<>>

InitApp ==
    /\ now = 0
    /\ WebUnused
    /\ YdInit
    /\ HdrUnused
    /\ AppInit
    /\ MainUnused

\* process_image is called for an image whose file_path is p: with overwrite
\* it calls delete_item(file_path, ignore_non_existent=True), without it
\* check_item_exists(file_path)
PiEnter(p) ==
    /\ app_pc = "idle"
    /\ file_path' = p
    /\ existed' = (p \in items)
    /\ report0' = report
    /\ app_outcome' = "none"
    /\ IF overwrite
       THEN /\ YdEnter([name |-> "delete_item", path |-> p, flag |-> TRUE])
            /\ app_pc' = "delete"
            /\ app_calls' = <<"delete_item">>
       ELSE /\ YdEnter([name |-> "check_item_exists", path |-> p,
                        flag |-> FALSE])
            /\ app_pc' = "check"
            /\ app_calls' = <<"check_item_exists">>
    /\ UNCHANGED <<overwrite, report>>

\* process_image is called
ProcessImage(p) ==
    /\ Len(yd_dispatched) < YdMaxCalls
    /\ PiEnter(p)
    /\ UNCHANGED mainVars

\* an HTTPError of the operation leaves process_image
PiRaised ==
    /\ app_pc' = "idle"
    /\ app_outcome' = "raised"
    /\ UNCHANGED <<now, webVars, ydVars, hdrVars, mainVars>>
    /\ UNCHANGED <<overwrite, report, file_path, existed, report0, app_calls>>

\* control goes on to self.yd_api.upload_file_from_url(file_path, image)
PiUpload ==
    /\ YdEnter([name |-> "upload_file_from_url", path |-> file_path,
                flag |-> FALSE])
    /\ app_pc' = "upload"
    /\ app_calls' = Append(app_calls, "upload_file_from_url")
    /\ UNCHANGED <<overwrite, report, file_path, app_outcome, existed, report0>>
    /\ UNCHANGED mainVars

\* delete_item ended
PiDeleted ==
    /\ app_pc = "delete"
    /\ yd_pc = "idle"
    /\ IF yd_outcome = "raised" THEN PiRaised ELSE PiUpload

\* check_item_exists ended: when it returned True process_image returns
PiChecked ==
    /\ app_pc = "check"
    /\ yd_pc = "idle"
    /\ IF yd_outcome = "raised"
       THEN PiRaised
       ELSE IF yd_result
            THEN /\ app_pc' = "idle"
                 /\ app_outcome' = "skipped"
                 /\ UNCHANGED <<now, webVars, ydVars, hdrVars, mainVars>>
                 /\ UNCHANGED <<overwrite, report, file_path, existed, report0,
                                app_calls>>
            ELSE PiUpload

\* upload_file_from_url ended: self.report.append(file_name)
PiUploaded ==
    /\ app_pc = "upload"
    /\ yd_pc = "idle"
    /\ IF yd_outcome = "raised"
       THEN PiRaised
       ELSE /\ report' = Append(report, file_path)
            /\ app_pc' = "idle"
            /\ app_outcome' = "uploaded"
            /\ UNCHANGED <<now, webVars, ydVars, hdrVars, mainVars>>
            /\ UNCHANGED <<overwrite, file_path, existed, report0, app_calls>>

NextApp ==
    \/ YdTick
    \/ \E p \in Paths : ProcessImage(p)
    \/ PiDeleted
    \/ PiChecked
    \/ PiUploaded
    \/ YdWaitCheck
    \/ YdSleep
    \/ YdRegister
    \/ YdRespond
    \/ BackendOperationDone

SpecApp == InitApp /\ [][NextApp]_vars

----------------------------------------------------------------------------
(* Application.main (src/main.py): the root directory, the catalog of      *)
(* breeds, the images of every breed and sub-breed, the report             *)

\* the catalog answers with at most MaxBreeds breeds
MaxBreeds == 1
\* a breed has at most MaxSubBreeds sub-breeds
MaxSubBreeds == 1
\* a list of random images has at most MaxImages images
MaxImages == 2
\* MAX_REQUESTS_PER_SECOND = 40
MAX_REQUESTS_PER_SECOND == 40

\* the decimal numeral of a small number
Num(n) == <<"0", "1", "2", "3", "4", "5", "6", "7", "8", "9">>[n + 1]

\* self.root_dir
Root == "disk:/dog_pictures"
\* f'{self.root_dir}/{breed}'
BreedDir(b) == Root \o "/breed" \o Num(b)
\* file_path of process_image: f'{self.root_dir}/{breed}/{file_name}', the
\* file name made of the breed, the sub-breed (0: none) and the image
FilePath(b, s, i) ==
    BreedDir(b) \o "/breed" \o Num(b) \o "_" \o Num(s) \o "_" \o Num(i) \o ".jpg"

\* BreedTqdm._calc_n: the current progress position
calc_n(img, tot_img, sub, tot_sub) ==
    IF tot_sub # 0 THEN sub * tot_img + img ELSE img

\* BreedTqdm._calc_total: the progress total count
calc_total(tot_img, tot_sub) ==
    IF tot_sub # 0 THEN tot_sub * tot_img ELSE tot_img

\* the answers of get_all_breeds_sub_breeds: the number of sub-breeds of
\* each breed
Catalogs == UNION {[1..n -> 0..MaxSubBreeds] : n \in 0..MaxBreeds}

\* the report file was not written
NotSaved == [written |-> FALSE, content |-> <<>>]

\* Application.__init__: YandexDiskApi(self.yd_key) with the default limit,
\* CLEAN and OVERWRITE either way; the storage is empty or holds the root
\* directory and the first image files, and may be locked
MainInit ==
    /\ clean \in BOOLEAN
    /\ main_pc = "start"
    /\ main_outcome = "none"
    /\ thread_pc = "none"
    /\ yd_actor = "main"
    /\ catalog = <<>>
    /\ breed_no = 0
    /\ sub_left = 0
    /\ images_left = 0
    /\ saved = NotSaved
    /\ created = {}
    /\ image = 0
    /\ total_images = 0
    /\ sub_breed = 0
    /\ total_sub_breeds = 0

InitMain ==
    /\ now = 0
    /\ DogInit
    /\ limit_per_second = MAX_REQUESTS_PER_SECOND
    /\ yd_request_history = <<>>
    /\ yd_pc = "idle"
    /\ yd_op = NoOperation
    /\ yd_status = 0
    /\ yd_outcome = "none"
    /\ yd_result = FALSE
    /\ yd_attempts = 0
    /\ yd_recorded = 0
    /\ yd_dispatched = <<>>
    /\ items \in {{}, {Root, FilePath(1, 0, 1), FilePath(1, 1, 1)}}
    /\ lock \in 0..MaxLock
    /\ operation = NoAsync
    /\ HdrUnused
    /\ AppInit
    /\ MainInit

\* a main whose finally block does not save the report
MainFinally_unsaved(out) ==
    /\ main_pc' = "done"
    /\ main_outcome' = out
    /\ saved' = saved

\* control leaves the try block of main, by its end or by an exception:
\* finally self.report.save(self.report_path)
MainFinally(out) ==
    /\ main_pc' = "done"
    /\ main_outcome' = out
    /\ saved' = [written |-> TRUE, content |-> report]

\* main is entered: if self.clean, delete_root_directory starts its thread
MainStart ==
    /\ main_pc = "start"
    /\ IF clean
       THEN main_pc' = "drd" /\ thread_pc' = "start"
       ELSE main_pc' = "root" /\ thread_pc' = thread_pc
    /\ UNCHANGED <<now, webVars, ydVars, hdrVars, appVars>>
    /\ UNCHANGED <<clean, main_outcome, yd_actor, catalog, breed_no, sub_left,
                   images_left, saved, created, barVars>>

\* thread_action: self.yd_api.delete_item(self.root_dir, ...)
ThreadRun ==
    /\ thread_pc = "start"
    /\ YdEnter([name |-> "delete_item", path |-> Root, flag |-> TRUE])
    /\ thread_pc' = "delete"
    /\ yd_actor' = "thread"
    /\ UNCHANGED appVars
    /\ UNCHANGED <<clean, main_pc, main_outcome, catalog, breed_no, sub_left,
                   images_left, saved, created, barVars>>

\* delete_item returned or raised: the thread ends
ThreadExit ==
    /\ thread_pc = "delete"
    /\ yd_pc = "idle"
    /\ thread_pc' = "dead"
    /\ UNCHANGED <<now, webVars, ydVars, hdrVars, appVars>>
    /\ UNCHANGED <<clean, main_pc, main_outcome, yd_actor, catalog, breed_no,
                   sub_left, images_left, saved, created, barVars>>

\* a delete_root_directory that does not wait for its thread
DrdJoin_nowait ==
    /\ main_pc = "drd"
    /\ main_pc' = "root"
    /\ UNCHANGED <<now, webVars, ydVars, hdrVars, appVars>>
    /\ UNCHANGED <<clean, main_outcome, thread_pc, yd_actor, catalog, breed_no,
                   sub_left, images_left, saved, created, barVars>>

\* while thread.is_alive(): progress.update(); time.sleep(1)
DrdPoll ==
    /\ main_pc = "drd"
    /\ thread_pc \in {"start", "delete"}
    /\ now + SECOND <= YdMaxTime
    /\ now' = now + SECOND
    /\ UNCHANGED <<webVars, ydVars, hdrVars, appVars, mainVars>>

\* the thread is not alive: the while loop ends, thread.join() returns
DrdJoin ==
    /\ main_pc = "drd"
    /\ thread_pc \notin {"start", "delete"}
    /\ main_pc' = "root"
    /\ UNCHANGED <<now, webVars, ydVars, hdrVars, appVars>>
    /\ UNCHANGED <<clean, main_outcome, thread_pc, yd_actor, catalog, breed_no,
                   sub_left, images_left, saved, created, barVars>>

\* self.yd_api.create_directory(self.root_dir)
MainCreateRoot ==
    /\ main_pc = "root"
    /\ YdEnter([name |-> "create_directory", path |-> Root, flag |-> TRUE])
    /\ main_pc' = "root_wait"
    /\ yd_actor' = "main"
    /\ UNCHANGED appVars
    /\ UNCHANGED <<clean, main_outcome, thread_pc, catalog, breed_no, sub_left,
                   images_left, saved, created, barVars>>

\* a main that goes on when create_directory of the root raised
MainRootCreated_unchecked ==
    /\ main_pc = "root_wait"
    /\ yd_pc = "idle"
    /\ main_pc' = "breeds"
    /\ created' = IF yd_outcome = "returned" THEN created \cup {yd_op.path}
                                             ELSE created
    /\ UNCHANGED <<main_outcome, saved>>
    /\ UNCHANGED <<now, webVars, ydVars, hdrVars, appVars>>
    /\ UNCHANGED <<clean, thread_pc, yd_actor, catalog, breed_no, sub_left,
                   images_left, barVars>>

\* create_directory of the root ended
MainRootCreated ==
    /\ main_pc = "root_wait"
    /\ yd_pc = "idle"
    /\ IF yd_outcome = "raised"
       THEN MainFinally("raised") /\ UNCHANGED created
       ELSE /\ main_pc' = "breeds"
            /\ created' = created \cup {yd_op.path}
            /\ UNCHANGED <<main_outcome, saved>>
    /\ UNCHANGED <<now, webVars, ydVars, hdrVars, appVars>>
    /\ UNCHANGED <<clean, thread_pc, yd_actor, catalog, breed_no, sub_left,
                   images_left, barVars>>

\* breeds = self.dog_api.get_all_breeds_sub_breeds()
MainGetBreeds ==
    /\ main_pc = "breeds"
    /\ DogEnter
    /\ main_pc' = "breeds_wait"
    /\ UNCHANGED appVars
    /\ UNCHANGED <<clean, main_outcome, thread_pc, yd_actor, catalog, breed_no,
                   sub_left, images_left, saved, created, barVars>>

\* get_all_breeds_sub_breeds ended: an exception leaves main, an answer is
\* the catalog the for loop runs over
MainGotBreeds ==
    /\ main_pc = "breeds_wait"
    /\ pc = "idle"
    /\ IF outcome # "returned"
       THEN MainFinally("raised") /\ UNCHANGED catalog
       ELSE /\ catalog' \in Catalogs
            /\ main_pc' = "breed"
            /\ UNCHANGED <<main_outcome, saved>>
    /\ UNCHANGED <<now, webVars, ydVars, hdrVars, appVars>>
    /\ UNCHANGED <<clean, thread_pc, yd_actor, breed_no, sub_left, images_left,
                   created, barVars>>

\* the for loop over the breeds ended: control leaves the try block
MainBreedsDone ==
    /\ main_pc = "breed"
    /\ catalog = <<>>
    /\ MainFinally("returned")
    /\ UNCHANGED <<now, webVars, ydVars, hdrVars, appVars>>
    /\ UNCHANGED <<clean, thread_pc, yd_actor, catalog, breed_no, sub_left,
                   images_left, created, barVars>>

\* the next breed: self.yd_api.create_directory(f'{self.root_dir}/{breed}')
MainCreateBreed ==
    /\ main_pc = "breed"
    /\ catalog # <<>>
    /\ YdEnter([name |-> "create_directory", path |-> BreedDir(breed_no + 1),
                flag |-> TRUE])
    /\ breed_no' = breed_no + 1
    /\ main_pc' = "breed_wait"
    /\ yd_actor' = "main"
    /\ UNCHANGED appVars
    /\ UNCHANGED <<clean, main_outcome, thread_pc, catalog, sub_left,
                   images_left, saved, created, barVars>>

\* create_directory of the breed ended; then
\* breed_progress.reset_sub_breed(len(sub_breeds))
MainBreedCreated ==
    /\ main_pc = "breed_wait"
    /\ yd_pc = "idle"
    /\ IF yd_outcome = "raised"
       THEN /\ MainFinally("raised")
            /\ UNCHANGED <<created, sub_left, sub_breed, total_sub_breeds>>
       ELSE /\ main_pc' = "images"
            /\ created' = created \cup {yd_op.path}
            /\ sub_left' = Head(catalog)
            /\ sub_breed' = 0
            /\ total_sub_breeds' = Head(catalog)
            /\ UNCHANGED <<main_outcome, saved>>
    /\ UNCHANGED <<now, webVars, ydVars, hdrVars, appVars>>
    /\ UNCHANGED <<clean, thread_pc, yd_actor, catalog, breed_no, images_left,
                   image, total_images>>

\* images = self.dog_api.get_sub_breed_random_images(...) for the next
\* sub-breed, or get_breed_random_images(...) of a breed without sub-breeds
MainGetImages ==
    /\ main_pc = "images"
    /\ DogEnter
    /\ main_pc' = "images_wait"
    /\ UNCHANGED appVars
    /\ UNCHANGED <<clean, main_outcome, thread_pc, yd_actor, catalog, breed_no,
                   sub_left, images_left, saved, created, barVars>>

\* the images arrived; then breed_progress.reset_image(len(images))
MainGotImages ==
    /\ main_pc = "images_wait"
    /\ pc = "idle"
    /\ IF outcome # "returned"
       THEN /\ MainFinally("raised")
            /\ UNCHANGED <<images_left, image, total_images>>
       ELSE /\ \E k \in 0..MaxImages :
                /\ images_left' = k
                /\ total_images' = k
            /\ image' = 0
            /\ main_pc' = "image"
            /\ UNCHANGED <<main_outcome, saved>>
    /\ UNCHANGED <<now, webVars, ydVars, hdrVars, appVars>>
    /\ UNCHANGED <<clean, thread_pc, yd_actor, catalog, breed_no, sub_left,
                   created, sub_breed, total_sub_breeds>>

\* the next image: self.process_image(image, breed, sub_breed)
MainProcessImage ==
    /\ main_pc = "image"
    /\ images_left > 0
    /\ PiEnter(FilePath(breed_no,
                        IF Head(catalog) = 0 THEN 0
                        ELSE Head(catalog) - sub_left + 1,
                        images_left))
    /\ main_pc' = "image_wait"
    /\ yd_actor' = "main"
    /\ UNCHANGED <<clean, main_outcome, thread_pc, catalog, breed_no, sub_left,
                   images_left, saved, created, barVars>>

\* process_image ended; then breed_progress.update_image()
MainImageDone ==
    /\ main_pc = "image_wait"
    /\ app_pc = "idle"
    /\ IF app_outcome = "raised"
       THEN MainFinally("raised") /\ UNCHANGED <<images_left, image>>
       ELSE /\ image' = image + 1
            /\ images_left' = images_left - 1
            /\ main_pc' = "image"
            /\ UNCHANGED <<main_outcome, saved>>
    /\ UNCHANGED <<now, webVars, ydVars, hdrVars, appVars>>
    /\ UNCHANGED <<clean, thread_pc, yd_actor, catalog, breed_no, sub_left,
                   created, total_images, sub_breed, total_sub_breeds>>

\* the for loop over the images ended: for a sub-breed
\* breed_progress.update_sub_breed() and the next sub-breed; after the last
\* one, and for a breed without sub-breeds, total_progress.update() and the
\* next breed
MainImagesDone ==
    /\ main_pc = "image"
    /\ images_left = 0
    /\ IF Head(catalog) > 0
       THEN /\ sub_breed' = sub_breed + 1
            /\ sub_left' = sub_left - 1
            /\ IF sub_left' > 0
               THEN main_pc' = "images" /\ UNCHANGED catalog
               ELSE main_pc' = "breed" /\ catalog' = Tail(catalog)
       ELSE /\ main_pc' = "breed"
            /\ catalog' = Tail(catalog)
            /\ UNCHANGED <<sub_breed, sub_left>>
    /\ UNCHANGED <<now, webVars, ydVars, hdrVars, appVars>>
    /\ UNCHANGED <<clean, main_outcome, thread_pc, yd_actor, breed_no,
                   images_left, saved, created, image, total_images,
                   total_sub_breeds>>

\* main makes fewer than MAX_REQUESTS_PER_SECOND storage requests, so
\* _wait_for_api_limits of YandexDiskApi never sleeps; the clock advances
\* with the time.sleep(1) of delete_root_directory
NextMain ==
    \/ MainStart
    \/ ThreadRun
    \/ ThreadExit
    \/ DrdPoll
    \/ DrdJoin
    \/ MainCreateRoot
    \/ MainRootCreated
    \/ MainGetBreeds
    \/ MainGotBreeds
    \/ MainBreedsDone
    \/ MainCreateBreed
    \/ MainBreedCreated
    \/ MainGetImages
    \/ MainGotImages
    \/ MainProcessImage
    \/ MainImageDone
    \/ MainImagesDone
    \/ PiDeleted
    \/ PiChecked
    \/ PiUploaded
    \/ YdWaitCheck
    \/ YdRegister
    \/ YdRespond
    \/ BackendOperationDone
    \/ Register
    \/ \E st \in StatusCodes : Respond(st)
    \/ TransportError

SpecMain == InitMain /\ [][NextMain]_vars

----------------------------------------------------------------------------
(* Properties of BasicWebApi *)

\* the number of timestamps t of hist with t + period >= t_now
InWindow(hist, period, t_now) ==
    Cardinality({i \in 1..Len(hist) : hist[i] + period >= t_now})

\* how often timestamp t occurs in hist
Occurrences(hist, t) == Cardinality({i \in 1..Len(hist) : hist[i] = t})

\* C1: at every dispatch, for every configured limit, the number of requests
\* this client dispatched before it within the trailing period is strictly
\* less than rate_limit.
C1_NoDispatchWhileSaturated ==
    \A k \in 1..Len(dispatched) : \A j \in 1..Len(api_limits) :
        Cardinality({i \in 1..(k - 1) :
            dispatched[i] + api_limits[j].period >= dispatched[k]})
          < api_limits[j].rate_limit

\* C2: get_rate_per_period(period) returns exactly the number of timestamps
\* recorded so far by this client with t + period >= now, also when period is
\* larger than request_history_expire.
C2_RateIsCountInWindow ==
    rate_query # NoQuery =>
        rate_query.result = InWindow(dispatched, rate_query.period, now)

\* C3: with a single limit (p, m), the (m+1)-th of any m+1 consecutive
\* requests is dispatched no earlier than p after the first was recorded.
C3_GateDelaysBurst ==
    Len(api_limits) = 1 =>
        LET p == api_limits[1].period
            m == api_limits[1].rate_limit
        IN  \A k \in 1..Len(dispatched) :
                k + m <= Len(dispatched) =>
                    dispatched[k + m] >= dispatched[k] + p

\* C4: every dispatched request is in the history exactly once before the
\* transport call is made, whatever the outcome of earlier requests, so every
\* dispatch within the retention window is counted by later limiter checks.
C4_RecordedBeforeTransport ==
    /\ Len(dispatched) = transports + (IF pc = "transport" THEN 1 ELSE 0)
    /\ pc = "transport" =>
           /\ request_history # <<>>
           /\ request_history[Len(request_history)] = dispatched[Len(dispatched)]
    /\ \A i \in 1..Len(dispatched) :
           dispatched[i] + request_history_expire >= now =>
               Occurrences(request_history, dispatched[i])
                   = Occurrences(dispatched, dispatched[i])

\* a second request ended with a transport exception and both requests are
\* on record
C4_Witness ==
    /\ outcome = "transport_error"
    /\ transports = 2
    /\ Len(request_history) = 2

\* C5: with two or more limits, when _wait_for_api_limits returns every
\* configured limit is unsaturated at that moment.
C5_AllLimitsUnsaturatedAtReturn ==
    (Len(api_limits) >= 2 /\ pc = "register") =>
        \A j \in 1..Len(api_limits) :
            InWindow(dispatched, api_limits[j].period, now)
                < api_limits[j].rate_limit

\* C6: _request raises an HTTP error exactly when the status is 4xx/5xx and
\* not in the suppress set; otherwise the response is returned.
C6_RaiseIffUnsuppressedFailure ==
    outcome \in {"raised", "returned"} =>
        (outcome = "raised" <=>
            /\ status_code \in 400..599
            /\ ~(suppress.given /\ status_code \in suppress.codes))

\* a 404 answered to a call with suppress={404} was returned to the caller
C6_Witness ==
    /\ outcome = "returned"
    /\ status_code = 404
    /\ suppress = Codes({404})

\* C14: a _request call makes one transport call and one history record, and
\* whatever the transport does (a response or an exception) control goes
\* back to the caller: nothing is sent again.
C14_TransportFailureNotRetried ==
    [][/\ (transports' # transports =>
              pc = "transport" /\ pc' = "idle" /\ transports' = transports + 1)
       /\ ((pc = "transport" /\ pc' # "transport") =>
              pc' = "idle" /\ outcome' \in {"returned", "raised",
                                            "transport_error"})
       /\ ((pc = "register" /\ pc' # "register") =>
              pc' = "transport"
                  /\ Len(request_history') = Len(request_history) + 1)
       /\ (pc # "register" => Len(request_history') <= Len(request_history))
      ]_vars

\* the first _request ended with a transport exception, leaving one record
C14_Witness ==
    /\ pc = "idle"
    /\ outcome = "transport_error"
    /\ transports = 1
    /\ Len(dispatched) = 1

\* s is what is left of t after removing a prefix
IsSuffix(s, t) ==
    /\ Len(s) <= Len(t)
    /\ \A i \in 1..Len(s) : s[i] = t[Len(t) - Len(s) + i]

\* C15: the history is the dispatch timestamps in the order of the requests,
\* non-decreasing, with only a prefix removed by pruning.
C15_HistoryInDispatchOrder ==
    /\ IsSuffix(request_history, dispatched)
    /\ \A i \in 1..Len(request_history) : \A j \in i..Len(request_history) :
           request_history[i] <= request_history[j]

\* of three requests the oldest was pruned and the later two are on record
C15_Witness ==
    /\ Len(dispatched) = 3
    /\ Len(request_history) = 2
    /\ request_history[1] < request_history[2]

\* C16: right after get_rate_per_period pruned the history, it holds no
\* timestamp older than request_history_expire and still holds every
\* recorded timestamp within request_history_expire.
C16_PruneKeepsRetentionWindow ==
    rate_query # NoQuery =>
        /\ \A i \in 1..Len(request_history) :
               request_history[i] + request_history_expire >= now
        /\ \A i \in 1..Len(dispatched) :
               dispatched[i] + request_history_expire >= now =>
                   Occurrences(request_history, dispatched[i])
                       = Occurrences(dispatched, dispatched[i])

\* a query pruned one of two records and kept the other
C16_Witness ==
    /\ rate_query # NoQuery
    /\ Len(dispatched) = 2
    /\ Len(request_history) = 1

\* C17: the headers sent are the default headers (Accept, Connection,
\* Keep-Alive, and Authorization 'OAuth <key>' exactly when an oauth_key is
\* configured) overlaid with the caller's headers: the caller's value wins on
\* every key they share and every other default key keeps its default value.
C17_CallerHeadersOverlayDefaults ==
    sent_headers.sent =>
        LET sent == sent_headers.dict
            caller == headers.dict
            defaults == {"Accept", "Connection", "Keep-Alive"}
                            \cup (IF oauth_key.given THEN {"Authorization"} ELSE {})
        IN  /\ DOMAIN sent = defaults \cup DOMAIN caller
            /\ \A k \in DOMAIN caller : sent[k] = caller[k]
            /\ \A k \in defaults \ DOMAIN caller :
                   sent[k] = CASE k = "Accept" -> "application/json"
                               [] k = "Connection" -> "keep-alive"
                               [] k = "Keep-Alive" -> "timeout=60"
                               [] k = "Authorization" ->
                                      IF oauth_key.key = "" THEN "OAuth "
                                                            ELSE "OAuth y0_token"

\* a client with a key sent a request whose caller gave Accept and no other
\* default header
C17_Witness ==
    /\ sent_headers.sent
    /\ oauth_key = Key("y0_token")
    /\ DOMAIN headers.dict = {"Accept", "X-Request-Id"}
    /\ sent_headers.dict["Accept"] = "*/*"
    /\ sent_headers.dict["Authorization"] = "OAuth y0_token"

\* C12: DogCeoApi never dispatches more than 10 requests within a trailing
\* window of its limit period: at every dispatch, the dispatches of the
\* period that ends with it are at most DOG_RATE_LIMIT.
C12_DogCeoApiRateLimited ==
    \A k \in 1..Len(dispatched) :
        Cardinality({i \in 1..k : dispatched[i] + DOG_LIMIT_PERIOD >= dispatched[k]})
            <= DOG_RATE_LIMIT

\* C13: the gate always opens.  A call that is inside _wait_for_api_limits
\* eventually has its request dispatched; the loop of a limit is left only
\* when fewer than rate_limit records of the retained history lie within
\* the limit's period; and with no limits configured control is never
\* inside the loop or its sleep.
C13_GateAlwaysOpens ==
    /\ (pc \in {"wait", "sleep"}) ~> (pc = "transport")
    /\ [][(pc = "wait" /\ (pc' = "register" \/ limit_idx' = limit_idx + 1)) =>
             LET limit == api_limits[limit_idx]
             IN  Cardinality({i \in 1..Len(request_history) :
                     /\ request_history[i] + request_history_expire >= now
                     /\ request_history[i] + limit.period >= now})
                   < limit.rate_limit]_vars
    /\ [](api_limits = <<>> => pc \notin {"wait", "sleep"})

\* a request is being sent after its caller slept beyond the ticks of the
\* clock
C13_Witness ==
    /\ pc = "transport"
    /\ api_limits # <<>>
    /\ now > MaxTime

----------------------------------------------------------------------------
(* Properties of YandexDiskApi *)

\* the running operation has ended, by returning or by raising
YdEnded == yd_pc = "idle" /\ yd_outcome # "none"

\* C7: a storage that answers 423 to every request of an operation makes
\* the operation send exactly MAX_UNLOCK_ATTEMPTS requests and then raise.
C7_LockedForeverExhaustsAttempts ==
    (YdEnded /\ yd_op.lock0 = Forever) =>
        /\ yd_attempts = MAX_UNLOCK_ATTEMPTS
        /\ yd_outcome = "raised"

\* C8: a storage that answers 423 twice and then answers normally makes the
\* operation end after exactly 3 requests; the 423 answers are not raised,
\* and a successful third answer is returned to the caller.
C8_LockedTwiceRecovers ==
    (YdEnded /\ yd_op.lock0 = 2) =>
        /\ yd_attempts = 3
        /\ yd_status # 423
        /\ (yd_status < 400 => yd_outcome = "returned")

\* C9: a delete_item call answered with 202 Accepted does not return before
\* the operation status was requested (at least one more request) and the
\* storage reports the operation as "success".
C9_AcceptedDeleteIsAwaited ==
    (YdEnded /\ yd_op.name = "delete_item" /\ yd_outcome = "returned"
             /\ yd_status = 202) =>
        /\ operation.status = "success"
        /\ yd_attempts >= 2

\* C10: create_directory answered with 409 (the path exists) has made
\* exactly one HTTP request and one history record, and it returns without
\* raising exactly when ignore_existing is True.
C10_CreateExistingDirectory ==
    (YdEnded /\ yd_op.name = "create_directory" /\ yd_status = 409) =>
        /\ yd_attempts = 1
        /\ yd_recorded = 1
        /\ (yd_outcome = "returned" <=> yd_op.flag)

\* create_directory(path, ignore_existing=True) on an existing path has
\* returned with the 409 suppressed
C10_Witness ==
    /\ YdEnded
    /\ yd_op.name = "create_directory"
    /\ yd_op.flag
    /\ yd_op.path \in items
    /\ yd_status = 409
    /\ yd_outcome = "returned"

\* C11: whatever operations one caller issues, every dispatch has fewer than
\* limit_per_second earlier dispatches within the second that ends at it: no
\* trailing window of one second holds more than limit_per_second dispatches.
C11_AtMostLimitPerSecond ==
    \A k \in 1..Len(yd_dispatched) :
        Cardinality({i \in 1..k : yd_dispatched[i] + SECOND >= yd_dispatched[k]})
            <= limit_per_second

\* with a limit of one request per second a second request was dispatched,
\* after the gate had slept
C11_Witness ==
    /\ limit_per_second = 1
    /\ Len(yd_dispatched) = 2
    /\ yd_dispatched[2] > yd_dispatched[1] + SECOND

\* C18: delete_item, create_directory and upload_file_from_url raise on
\* every failure status, except delete_item on 404 with ignore_non_existent
\* and create_directory on 409 with ignore_existing.
C18_OnlyNamedCodeSuppressed ==
    (YdEnded /\ yd_op.name \in {"delete_item", "create_directory",
                                "upload_file_from_url"}) =>
        (yd_outcome = "raised" <=>
            /\ yd_status \in 400..599
            /\ ~(yd_op.name = "delete_item" /\ yd_status = 404 /\ yd_op.flag)
            /\ ~(yd_op.name = "create_directory" /\ yd_status = 409
                    /\ yd_op.flag))

\* delete_item(path, ignore_non_existent=False) of a missing item has raised
C18_Witness ==
    /\ YdEnded
    /\ yd_op.name = "delete_item"
    /\ ~yd_op.flag
    /\ yd_status = 404
    /\ yd_outcome = "raised"

\* C19: check_item_exists leaves the set of items in the storage unchanged,
\* returns True exactly when the item exists and False exactly on 404.
C19_CheckItemExistsIsReadOnly ==
    [][(yd_pc = "transport" /\ yd_pc' = "idle"
            /\ yd_op.name = "check_item_exists") =>
          /\ items' = items
          /\ (yd_outcome' = "returned" =>
                 (yd_result' <=> yd_op.path \in items))]_vars

----------------------------------------------------------------------------
(* Properties of Application.process_image *)

\* C20: when process_image returns, then with OVERWRITE disabled and the
\* file in the storage at the call it was skipped: no upload was called, the
\* report is what it was and the file is still in the storage; with
\* OVERWRITE enabled delete_item and then upload_file_from_url were called
\* and the file was appended to the report.
C20_SkipKeepsFileOverwriteReplaces ==
    (app_pc = "idle" /\ app_outcome \in {"skipped", "uploaded"}) =>
        /\ (~overwrite /\ existed) =>
               /\ app_outcome = "skipped"
               /\ app_calls = <<"check_item_exists">>
               /\ report = report0
               /\ file_path \in items
        /\ overwrite =>
               /\ app_calls = <<"delete_item", "upload_file_from_url">>
               /\ report = Append(report0, file_path)

----------------------------------------------------------------------------
(* Properties of Application.main *)

\* C21: the report gets an entry only when upload_file_from_url returned
\* without raising, appended at the end for the file just uploaded; once
\* process_image has gone past a returned upload the last entry is that
\* file; and when main has ended, by its end or by an exception of an API
\* call, the report file holds the report.
C21_ReportOfReturnedUploadsIsSaved ==
    /\ [][report' # report =>
             /\ app_pc = "upload" /\ app_pc' = "idle"
             /\ yd_op.name = "upload_file_from_url"
             /\ yd_pc = "idle" /\ yd_outcome = "returned"
             /\ report' = Append(report, yd_op.path)]_vars
    /\ []((/\ yd_op.name = "upload_file_from_url"
           /\ yd_pc = "idle" /\ yd_outcome = "returned"
           /\ app_pc # "upload") =>
              (report # <<>> /\ report[Len(report)] = yd_op.path))
    /\ [](main_pc = "done" =>
              (saved.written /\ saved.content = report))

\* main was left by an exception after one upload: the report file holds
\* that one entry
C21_Witness ==
    /\ main_pc = "done"
    /\ main_outcome = "raised"
    /\ saved.written
    /\ Len(saved.content) = 1

\* the directory of the breed a file path lies in
ParentDir(path) ==
    BreedDir(CHOOSE b \in 1..MaxBreeds :
                 \E sb \in 0..MaxSubBreeds, i \in 1..MaxImages :
                     path = FilePath(b, sb, i))

IsAlive == thread_pc \in {"start", "delete"}

\* C23: one thread at a time issues requests.  While the thread of
\* delete_root_directory is alive the main thread is in the polling loop:
\* it is inside no operation of either client, a storage operation under
\* way is the thread's, the history of the catalog client is untouched and
\* the history of the storage client changes in the thread's operation
\* only; and when main issues a request the thread is not alive.
C23_OneThreadIssuesRequests ==
    /\ [](IsAlive =>
              /\ main_pc = "drd"
              /\ pc = "idle"
              /\ app_pc = "idle"
              /\ (yd_pc # "idle" => yd_actor = "thread"))
    /\ [][IsAlive =>
              /\ request_history' = request_history
              /\ dispatched' = dispatched
              /\ ((yd_request_history' # yd_request_history
                      \/ yd_dispatched' # yd_dispatched) =>
                     yd_actor = "thread")]_vars
    /\ [][((yd_pc = "idle" /\ yd_pc' = "wait" /\ yd_actor' = "main")
              \/ (pc = "idle" /\ pc' # "idle")) =>
             ~IsAlive]_vars

\* the request of the thread is on its way and main has slept a second
C23_Witness ==
    /\ thread_pc = "delete"
    /\ yd_pc = "transport"
    /\ yd_actor = "thread"
    /\ main_pc = "drd"
    /\ now = SECOND

----------------------------------------------------------------------------
(* Properties of BreedTqdm *)

\* C24: the progress position of breed_progress never exceeds its total,
\* and between the reset_sub_breed of a breed and the end of the breed the
\* position never decreases.
C24_ProgressWithinTotal ==
    /\ [](calc_n(image, total_images, sub_breed, total_sub_breeds)
              <= calc_total(total_images, total_sub_breeds))
    /\ [][(main_pc \in {"images", "images_wait", "image", "image_wait"}) =>
             (calc_n(image, total_images, sub_breed, total_sub_breeds)
                 <= calc_n(image', total_images', sub_breed', total_sub_breeds'))]_vars

====
